---- MODULE Spec2Model ----
(***************************************************************************)
(* A model of gnsscal (src/gnsscal.go): a cal-like calendar annotated with *)
(* GNSS week numbers and day-of-year.                                      *)
(*                                                                         *)
(* A time.Time is modelled by the number of whole days between 1970-01-01  *)
(* and its date: every Time the program builds is a UTC midnight           *)
(* (time.Date(..., 0, 0, 0, 0, time.UTC), or time.Now().Truncate(oneDay)), *)
(* and the clock's zone is taken to be UTC.  A string is modelled by the   *)
(* sequence of its characters, one one-character string per rune; the      *)
(* escape character \033 is the element "ESC".                             *)
(***************************************************************************)
EXTENDS Integers, Sequences, FiniteSets, TLC

VARIABLES
    args,             \* flag.Args(): the positional arguments
    flagSatsys,       \* -satsys
    flag3mon,         \* -3
    flagNoHighlight,  \* -n
    now,              \* time.Now().Truncate(oneDay), read once
    pc,               \* where main is: "start", "main", "done"
    cal,              \* the gnssCal that getCalWithOpt returns
    err,              \* the error that getCalWithOpt returns (<<>>: nil)
    stdout,           \* the lines printed so far
    fn,               \* date utilities: the function applied ("none": not yet)
    fa,               \* date utilities: the date argument
    fb,               \* date utilities: the initialDate argument
    fr                \* date utilities: the value returned

vars == <<args, flagSatsys, flag3mon, flagNoHighlight, now, pc, cal, err,
          stdout, fn, fa, fb, fr>>

progVars == <<args, flagSatsys, flag3mon, flagNoHighlight, now, pc, cal, err,
              stdout>>

(***************************************************************************)
(* Bounds of the model.                                                    *)
(***************************************************************************)
\* the clock reads one of the TodayBases or one of the MaxTodayOffset days after it
MaxTodayOffset == 0
\* the date utilities are applied to the days 2019-01-01 .. +MaxDayOffset
MaxDayOffset == 800
\* ... to the first MaxEpochOffset days from each epoch
MaxEpochOffset == 30
\* ... and to the days at most MaxFarOffset away from epoch + MaxDurationDays
MaxFarOffset == 10

(***************************************************************************)
(* package time                                                            *)
(***************************************************************************)
\* the days from 1970-01-01 to the civil date y-m-d, for m in 1..12
DaysFromCivil(y, m, d) ==
    LET yy  == IF m <= 2 THEN y - 1 ELSE y
        era == yy \div 400
        yoe == yy - era * 400
        mp  == IF m > 2 THEN m - 3 ELSE m + 9
        doyM == (153 * mp + 2) \div 5 + d - 1
        doe == yoe * 365 + yoe \div 4 - yoe \div 100 + doyM
    IN  era * 146097 + doe - 719468

\* the civil date of the day z days from 1970-01-01, computed in steps: the
\* 400-year era, the day and the year of the era, the day of the year counted
\* from March 1, the month counted from March
CivilOfMonth(y, doyM, mp) ==
    [year |-> IF mp < 10 THEN y ELSE y + 1,
     month |-> IF mp < 10 THEN mp + 3 ELSE mp - 9,
     day |-> doyM - (153 * mp + 2) \div 5 + 1]

CivilOfDoy(y, doyM) == CivilOfMonth(y, doyM, (5 * doyM + 2) \div 153)

CivilOfYoe(era, doe, yoe) ==
    CivilOfDoy(yoe + era * 400, doe - (365 * yoe + yoe \div 4 - yoe \div 100))

CivilOfDoe(era, doe) ==
    CivilOfYoe(era, doe,
               (doe - doe \div 1460 + doe \div 36524 - doe \div 146096) \div 365)

CivilOfEra(zz, era) == CivilOfDoe(era, zz - era * 146097)

CivilFromDays(z) == CivilOfEra(z + 719468, (z + 719468) \div 146097)

\* time.Date(year, month, day, 0, 0, 0, 0, time.UTC): month and day outside
\* their ranges are normalised (month 0 is December of the year before)
Date(year, month, day) ==
    LET m0 == month - 1
    IN  DaysFromCivil(year + (m0 \div 12), (m0 % 12) + 1, 1) + (day - 1)

Year(t) == CivilFromDays(t).year
Month(t) == CivilFromDays(t).month
Day(t) == CivilFromDays(t).day
\* Sunday = 0 .. Saturday = 6; 1970-01-01 was a Thursday
Weekday(t) == (t + 4) % 7
Before(t, u) == t < u
Equal(t, u) == t = u

January == 1
December == 12
Sunday == 0
Saturday == 6

\* the whole days in the largest Duration, 2^63 - 1 ns (2562047 h 47 min ...)
MaxDurationDays == 2562047 \div 24

\* t.Sub(u) in whole days.  A Duration holds at most 2^63 - 1 ns: a
\* difference out of its range is returned as the largest (smallest)
\* Duration, 106751 days and a fraction, of which the callers' int(x / y)
\* keeps 106751 days (the fraction, under a day, changes neither quotient).
Sub(t, u) ==
    IF t - u > MaxDurationDays THEN MaxDurationDays
    ELSE IF t - u < -MaxDurationDays THEN -MaxDurationDays
    ELSE t - u

\* int(a / b) of two float64 holding the whole numbers a and b > 0: the
\* quotient truncated toward zero
TruncDiv(a, b) == IF a >= 0 THEN a \div b ELSE -((-a) \div b)

\* time.Month.String()
MonthString(m) ==
    CASE m = 1 -> <<"J","a","n","u","a","r","y">>
      [] m = 2 -> <<"F","e","b","r","u","a","r","y">>
      [] m = 3 -> <<"M","a","r","c","h">>
      [] m = 4 -> <<"A","p","r","i","l">>
      [] m = 5 -> <<"M","a","y">>
      [] m = 6 -> <<"J","u","n","e">>
      [] m = 7 -> <<"J","u","l","y">>
      [] m = 8 -> <<"A","u","g","u","s","t">>
      [] m = 9 -> <<"S","e","p","t","e","m","b","e","r">>
      [] m = 10 -> <<"O","c","t","o","b","e","r">>
      [] m = 11 -> <<"N","o","v","e","m","b","e","r">>
      [] m = 12 -> <<"D","e","c","e","m","b","e","r">>

(***************************************************************************)
(* packages fmt and strconv                                                *)
(***************************************************************************)
Digits == <<"0","1","2","3","4","5","6","7","8","9">>

DigitValue(c) == CHOOSE v \in 0..9 : Digits[v + 1] = c

Spaces(n) == IF n <= 0 THEN <<>> ELSE [i \in 1..n |-> " "]

\* %d
RECURSIVE Itoa(_)
Itoa(n) ==
    IF n < 0 THEN <<"-">> \o Itoa(-n)
    ELSE IF n < 10 THEN <<Digits[n + 1]>>
    ELSE Itoa(n \div 10) \o <<Digits[(n % 10) + 1]>>

\* %<w>s and %<w>d: right-justified in w columns, never truncated
PadLeft(s, w) == Spaces(w - Len(s)) \o s

\* %-<w>s: left-justified in w columns, never truncated
PadRight(s, w) == s \o Spaces(w - Len(s))

RECURSIVE ParseDigits(_, _)
ParseDigits(s, acc) ==
    IF s = <<>> THEN acc
    ELSE ParseDigits(Tail(s), acc * 10 + DigitValue(Head(s)))

\* strconv.Atoi: an optional sign and at least one decimal digit
Atoi(s) ==
    LET signed == s # <<>> /\ Head(s) \in {"+", "-"}
        body == IF signed THEN Tail(s) ELSE s
        isNum == body # <<>> /\ \A i \in 1..Len(body) : body[i] \in {Digits[k] : k \in 1..10}
    IN  IF ~isNum THEN [ok |-> FALSE, val |-> 0]
        ELSE [ok |-> TRUE,
              val |-> IF signed /\ Head(s) = "-" THEN -ParseDigits(body, 0)
                      ELSE ParseDigits(body, 0)]

\* %v of the *strconv.NumError that Atoi returns for s
AtoiError(s) ==
    <<"s","t","r","c","o","n","v",".","A","t","o","i",":"," ","p","a","r","s","i","n","g"," ">>
    \o <<"\"">> \o s \o <<"\"">>
    \o <<":"," ","i","n","v","a","l","i","d"," ","s","y","n","t","a","x">>

(***************************************************************************)
(* gnsscal.go: constants                                                   *)
(***************************************************************************)
GPST0 == Date(1980, January, 6)
GST0 == Date(1999, 8, 22)
QZSST0 == Date(1980, January, 6)
BDT0 == Date(2006, January, 1)

\* H1 = "  \033[7m%2d\033[0m"
H1(n) == <<" ", " ", "ESC", "[", "7", "m">> \o PadLeft(Itoa(n), 2) \o <<"ESC", "[", "0", "m">>

Layout1Month == 0
Layout3Month == 1
Layout1Year == 2

SYSGPS == <<"G","P","S">>
SYSGLO == <<"G","L","O">>
SYSGAL == <<"G","A","L">>
SYSQZS == <<"Q","Z","S">>
SYSBDS == <<"B","D","S">>

(***************************************************************************)
(* gnsscal.go: date utilities                                              *)
(***************************************************************************)
\* the days since January 1, January 1 being day 0
doy_FromZero(date) ==
    TruncDiv(Sub(date, Date(Year(date), January, 1)), 1)

doy(date) ==
    LET newYearDay == Date(Year(date), January, 1)
    IN  TruncDiv(Sub(date, newYearDay), 1) + 1

gnssWeek(date, initialDate) == TruncDiv(Sub(date, initialDate), 7)

leapYearDate(date) ==
    LET year == Year(date)
        leapYear == year - (year % 4)
    IN  Date(leapYear, 1, 1)

firstDayOfNextMonth(date) ==
    IF Month(date) = December THEN Date(Year(date) + 1, January, 1)
    ELSE Date(Year(date), Month(date) + 1, 1)

firstDayOfLastMonth(date) ==
    IF Month(date) = January THEN Date(Year(date) - 1, December, 1)
    ELSE Date(Year(date), Month(date) - 1, 1)

(***************************************************************************)
(* gnsscal.go: gnssCalMonth                                                *)
(***************************************************************************)
\* the two header lines: the system and the centred "Month Year", and the
\* weekday row
Header(year, month, sys) ==
    LET head == MonthString(month) \o <<" ">> \o PadLeft(Itoa(year), 4)
    IN  << sys \o PadLeft(head, 17 + Len(head) \div 2),
           <<"W","e","e","k"," "," "," ","S","u","n"," ","M","o","n"," ","T","u","e"," ",
             "W","e","d"," ","T","h","u"," ","F","r","i"," ","S","a","t">> >>

\* a week row starts at the first day of the month and at every Sunday
RowStart(date, firstDay) == Equal(date, firstDay) \/ Weekday(date) = Sunday

\* the week number of a row, also before the epoch
WeekField_NeverBlank(date, initialDate) ==
    PadLeft(Itoa(gnssWeek(date, initialDate)), 4) \o Spaces(2)

\* the week number of a row, blank before the epoch
WeekField(date, initialDate) ==
    IF Before(date, initialDate) THEN Spaces(6)
    ELSE PadLeft(Itoa(gnssWeek(date, initialDate)), 4) \o Spaces(2)

\* the day of the month, in reversed colour when it is today
DayCell(date, today, highlight) ==
    IF Equal(date, today) /\ highlight THEN H1(Day(date))
    ELSE Spaces(2) \o PadLeft(Itoa(Day(date)), 2)

DoyCell(date) == Spaces(1) \o PadLeft(Itoa(doy(date)), 3)

\* the rows still buffered are appended after every month
TrailingFlush_Always(lastDay) == TRUE

\* after the loop the rows still buffered are appended unless the month
\* ended on a Saturday
TrailingFlush(lastDay) == Weekday(lastDay) # Sunday

\* the day row after the body of the loop for date: a row that starts gets
\* its week number and the blank columns before date; then the cell of date
DayRow(bufday, date, firstDay, today, highlight, initialDate) ==
    IF RowStart(date, firstDay)
    THEN bufday \o WeekField(date, initialDate) \o Spaces(4 * Weekday(date))
         \o DayCell(date, today, highlight)
    ELSE bufday \o DayCell(date, today, highlight)

\* the day-of-year row after the body of the loop for date
DoyRow(bufdoy, date, firstDay) ==
    IF RowStart(date, firstDay)
    THEN bufdoy \o Spaces(6) \o Spaces(4 * Weekday(date)) \o DoyCell(date)
    ELSE bufdoy \o DoyCell(date)

\* for date := firstDay; date.Before(lastDay); date = date.Add(oneDay):
\* on a Saturday the two rows go to msg and the buffers are emptied
RECURSIVE CalLoop(_, _, _, _, _, _, _, _, _)
CalLoop(date, firstDay, lastDay, today, highlight, initialDate, bufday, bufdoy, msg) ==
    IF ~Before(date, lastDay)
    THEN [msg |-> msg, bufday |-> bufday, bufdoy |-> bufdoy]
    ELSE IF Weekday(date) = Saturday
    THEN CalLoop(date + 1, firstDay, lastDay, today, highlight, initialDate,
                 <<>>, <<>>,
                 msg \o << DayRow(bufday, date, firstDay, today, highlight, initialDate),
                           DoyRow(bufdoy, date, firstDay) >>)
    ELSE CalLoop(date + 1, firstDay, lastDay, today, highlight, initialDate,
                 DayRow(bufday, date, firstDay, today, highlight, initialDate),
                 DoyRow(bufdoy, date, firstDay),
                 msg)

\* after the loop
Finish(st, lastDay) ==
    IF TrailingFlush(lastDay) THEN st.msg \o <<st.bufday, st.bufdoy>> ELSE st.msg

CalFrom(firstDay, lastDay, head, today, highlight, initialDate) ==
    Finish(CalLoop(firstDay, firstDay, lastDay, today, highlight, initialDate,
                   <<>>, <<>>, head),
           lastDay)

gnssCalMonth(year, month, today, highlight, initialDate, sys) ==
    CalFrom(Date(year, month, 1), firstDayOfNextMonth(Date(year, month, 1)),
            Header(year, month, sys), today, highlight, initialDate)

(***************************************************************************)
(* gnsscal.go: the layouts                                                 *)
(***************************************************************************)
\* the number of lines of the three-month layout
ThreeMonthN(msgl, msgc, msgr) ==
    IF Len(msgr) > (IF Len(msgc) > Len(msgl) THEN Len(msgc) ELSE Len(msgl))
    THEN Len(msgc)
    ELSE IF Len(msgc) > Len(msgl) THEN Len(msgc) ELSE Len(msgl)

\* one block's part of line i (from 0) of the three-month layout
Field(m, i) == IF Len(m) > i THEN PadRight(m[i + 1], 34) ELSE PadLeft(<<>>, 34)

\* the three blocks side by side
Join3(msgl, msgc, msgr) ==
    [i \in 1..ThreeMonthN(msgl, msgc, msgr) |->
        Field(msgl, i - 1) \o Spaces(4) \o Field(msgc, i - 1) \o Spaces(4)
        \o Field(msgr, i - 1)]

\* the block of the month of date, which is the month before or after the
\* reference month: GLONASS weeks count from its own leap year
SideMonth(date, today, highlight, initialDate, sys) ==
    gnssCalMonth(Year(date), Month(date), today, highlight,
                 IF sys = SYSGLO THEN leapYearDate(date) ELSE initialDate, sys)

threeMonthLayout(refDate, today, highlight, initialDate, sys) ==
    Join3(SideMonth(firstDayOfLastMonth(refDate), today, highlight, initialDate, sys),
          gnssCalMonth(Year(refDate), Month(refDate), today, highlight, initialDate, sys),
          SideMonth(firstDayOfNextMonth(refDate), today, highlight, initialDate, sys))

OneMonthLayout(c) ==
    gnssCalMonth(Year(c.RefDate), Month(c.RefDate), c.Today, c.Highlight, c.SysTime0, c.SatSys)

\* the four rows of the year, from the reference dates February, May, August
\* and November 1, with an empty line between two rows
RECURSIVE StackRows(_, _, _)
StackRows(c, year, k) ==
    IF k = 4 THEN threeMonthLayout(Date(year, 11, 1), c.Today, c.Highlight, c.SysTime0, c.SatSys)
    ELSE threeMonthLayout(Date(year, 3 * k - 1, 1), c.Today, c.Highlight, c.SysTime0, c.SatSys)
         \o << <<>> >> \o StackRows(c, year, k + 1)

OneYearLayout(c) == StackRows(c, Year(c.RefDate), 1)

ThreeMonthLayout(c) ==
    threeMonthLayout(c.RefDate, c.Today, c.Highlight, c.SysTime0, c.SatSys)

(***************************************************************************)
(* gnsscal.go: getCalWithOpt                                               *)
(***************************************************************************)
\* the value of a gnssCal before getCalWithOpt has returned one
ZeroCal ==
    [SatSys |-> <<>>, Highlight |-> FALSE, RefDate |-> Date(1, January, 1),
     Layout |-> Layout1Month, SysTime0 |-> Date(1, January, 1),
     Today |-> Date(1, January, 1)]

DefaultCal(today) ==
    [SatSys |-> SYSGPS, Highlight |-> TRUE, RefDate |-> today,
     Layout |-> Layout1Month, SysTime0 |-> GPST0, Today |-> today]

YearOutOfRange(year) == year < 1980

\* only the upper bound of the month is checked
MonthOutOfRange_NoLowerBound(month) == 12 < month

MonthOutOfRange(month) == month < 0 \/ 12 < month

InvalidYear == <<"i","n","v","a","l","i","d"," ","y","e","a","r",":"," ">>
InvalidMonth == <<"i","n","v","a","l","i","d"," ","m","o","n","t","h",":"," ">>
CommaError == <<","," ","e","r","r","o","r",":"," ">>

\* switch len(args): the reference date and the layout, or an error
ParseArgs(a, today) ==
    LET cal0 == DefaultCal(today)
    IN  CASE Len(a) = 1 ->
               LET year == Atoi(a[1])
               IN  IF ~year.ok \/ YearOutOfRange(year.val)
                   THEN [cal |-> cal0, err |-> InvalidYear \o a[1]]
                   ELSE [cal |-> [cal0 EXCEPT !.RefDate = Date(year.val, 1, 1),
                                              !.Layout = Layout1Year],
                         err |-> <<>>]
          [] Len(a) = 2 ->
               LET month == Atoi(a[1])
                   year == Atoi(a[2])
               IN  IF ~month.ok
                   THEN [cal |-> cal0,
                         err |-> InvalidMonth \o a[1] \o CommaError \o AtoiError(a[1])]
                   ELSE IF ~year.ok
                   THEN [cal |-> cal0,
                         err |-> InvalidYear \o a[2] \o CommaError \o AtoiError(a[2])]
                   ELSE IF MonthOutOfRange(month.val)
                   THEN [cal |-> cal0, err |-> InvalidMonth \o Itoa(month.val)]
                   ELSE IF YearOutOfRange(year.val)
                   THEN [cal |-> cal0, err |-> InvalidYear \o Itoa(year.val)]
                   ELSE [cal |-> [cal0 EXCEPT
                                    !.Layout = Layout1Month,
                                    !.RefDate =
                                       IF year.val = Year(today) /\ month.val = Month(today)
                                       THEN today
                                       ELSE Date(year.val, month.val, 1)],
                         err |-> <<>>]
          [] OTHER -> [cal |-> cal0, err |-> <<>>]

\* switch flagSatsys, flag3mon, flagNoHighlight: the system and its epoch,
\* the layout and the highlight; out is what the default case prints
ApplyFlags(c, satsys, f3mon, fNoHighlight) ==
    LET c1 == CASE satsys = SYSGPS -> [c EXCEPT !.SatSys = SYSGPS, !.SysTime0 = GPST0]
                [] satsys = SYSQZS -> [c EXCEPT !.SatSys = SYSQZS, !.SysTime0 = QZSST0]
                [] satsys = SYSBDS -> [c EXCEPT !.SatSys = SYSBDS, !.SysTime0 = BDT0]
                [] satsys = SYSGAL -> [c EXCEPT !.SatSys = SYSGAL, !.SysTime0 = GST0]
                [] satsys = SYSGLO -> [c EXCEPT !.SatSys = SYSGLO,
                                                !.SysTime0 = leapYearDate(c.RefDate)]
                [] OTHER -> c
        known == satsys \in {SYSGPS, SYSQZS, SYSBDS, SYSGAL, SYSGLO}
        c2 == IF f3mon THEN [c1 EXCEPT !.Layout = Layout3Month] ELSE c1
        c3 == IF fNoHighlight THEN [c2 EXCEPT !.Highlight = FALSE] ELSE c2
    IN  [cal |-> c3,
         out |-> IF known THEN <<>>
                 ELSE << <<"u","n","k","n","o","w","n"," ","S","a","t","S","y","s",":"," ","'">>
                         \o satsys
                         \o <<"'","."," ","u","s","e"," ","G","P","S","T"," ",
                              "i","n","s","t","e","a","d",".">> >>]

getCalWithOpt(a, satsys, f3mon, fNoHighlight, today) ==
    LET parsed == ParseArgs(a, today)
        flagged == ApplyFlags(parsed.cal, satsys, f3mon, fNoHighlight)
    IN  IF parsed.err # <<>> THEN [cal |-> parsed.cal, err |-> parsed.err, out |-> <<>>]
        ELSE [cal |-> flagged.cal, err |-> <<>>, out |-> flagged.out]

(***************************************************************************)
(* The inputs of a run.                                                    *)
(***************************************************************************)
MonthArgs == {Itoa(m) : m \in -1..13} \cup { <<"a","b","c">> }

YearArgs == {Itoa(y) : y \in {1979, 1980, 2019, 2021, 2026, 2273}} \cup { <<"2","0","x">> }

ArgLists ==
    { <<>> } \cup { <<y>> : y \in YearArgs }
    \cup { <<m, y>> : m \in MonthArgs, y \in YearArgs }
    \cup { << <<"1">>, <<"2">>, <<"2","0","2","1">> >> }

SatsysFlags == {SYSGPS, SYSQZS, SYSBDS, SYSGAL, SYSGLO, <<"G","P","S","T">>}

TodayBases == {Date(2019, 2, 1), Date(2019, 3, 31), Date(2021, 10, 16)}

Todays == {b + k : b \in TodayBases, k \in 0..MaxTodayOffset}

(***************************************************************************)
(* main                                                                    *)
(***************************************************************************)
utilVars == <<fn, fa, fb, fr>>
inputVars == <<args, flagSatsys, flag3mon, flagNoHighlight, now>>

Init ==
    /\ args \in ArgLists
    /\ flagSatsys \in SatsysFlags
    /\ flag3mon \in BOOLEAN
    /\ flagNoHighlight \in BOOLEAN
    /\ now \in Todays
    /\ pc = "start"
    /\ cal = ZeroCal
    /\ err = <<>>
    /\ stdout = <<>>
    /\ fn = "none" /\ fa = 0 /\ fb = 0 /\ fr = 0

\* cal, err := getCalWithOpt()
GetCalWithOpt ==
    /\ pc = "start"
    /\ LET r == getCalWithOpt(args, flagSatsys, flag3mon, flagNoHighlight, now)
       IN  /\ cal' = r.cal
           /\ err' = r.err
           /\ stdout' = stdout \o r.out
    /\ pc' = "main"
    /\ UNCHANGED <<inputVars, utilVars>>

\* if err != nil { fmt.Printf("%v\n", err); return }
PrintError ==
    /\ pc = "main"
    /\ err # <<>>
    /\ stdout' = Append(stdout, err)
    /\ pc' = "done"
    /\ UNCHANGED <<inputVars, cal, err, utilVars>>

\* fmt.Printf("%s\n", cal.String()): String joins the lines of the layout
\* that c.Layout selects with "\n"
PrintOneMonth ==
    /\ pc = "main"
    /\ err = <<>>
    /\ cal.Layout = Layout1Month
    /\ stdout' = stdout \o OneMonthLayout(cal)
    /\ pc' = "done"
    /\ UNCHANGED <<inputVars, cal, err, utilVars>>

PrintThreeMonth ==
    /\ pc = "main"
    /\ err = <<>>
    /\ cal.Layout = Layout3Month
    /\ stdout' = stdout \o ThreeMonthLayout(cal)
    /\ pc' = "done"
    /\ UNCHANGED <<inputVars, cal, err, utilVars>>

PrintOneYear ==
    /\ pc = "main"
    /\ err = <<>>
    /\ cal.Layout = Layout1Year
    /\ stdout' = stdout \o OneYearLayout(cal)
    /\ pc' = "done"
    /\ UNCHANGED <<inputVars, cal, err, utilVars>>

Next ==
    \/ GetCalWithOpt
    \/ PrintError
    \/ PrintOneMonth
    \/ PrintThreeMonth
    \/ PrintOneYear

Spec == Init /\ [][Next]_vars

(***************************************************************************)
(* The date utilities, each applied to dates the program can meet.         *)
(***************************************************************************)
Epochs == {GPST0, GST0, BDT0, leapYearDate(Date(2021, 10, 1))}

UtilDates(epoch) ==
    {Date(2019, 1, 1) + k : k \in 0..MaxDayOffset}
    \cup {epoch + k : k \in 0..MaxEpochOffset}
    \cup {epoch - k : k \in 0..MaxEpochOffset}
    \cup {epoch + MaxDurationDays + k : k \in 0..MaxFarOffset}
    \cup {epoch + MaxDurationDays - k : k \in 0..MaxFarOffset}

InitDate ==
    /\ args = <<>>
    /\ flagSatsys = SYSGPS
    /\ flag3mon = FALSE
    /\ flagNoHighlight = FALSE
    /\ now = Date(2021, 10, 16)
    /\ pc = "start"
    /\ cal = ZeroCal
    /\ err = <<>>
    /\ stdout = <<>>
    /\ fn = "none"
    /\ fb \in Epochs
    /\ fa \in UtilDates(fb)
    /\ fr = 0

CallDoy ==
    /\ fn = "none"
    /\ fn' = "doy"
    /\ fr' = doy(fa)
    /\ UNCHANGED <<progVars, fa, fb>>

CallGnssWeek ==
    /\ fn = "none"
    /\ fn' = "gnssWeek"
    /\ fr' = gnssWeek(fa, fb)
    /\ UNCHANGED <<progVars, fa, fb>>

CallLeapYearDate ==
    /\ fn = "none"
    /\ fn' = "leapYearDate"
    /\ fr' = leapYearDate(fa)
    /\ UNCHANGED <<progVars, fa, fb>>

CallFirstDayOfNextMonth ==
    /\ fn = "none"
    /\ fn' = "firstDayOfNextMonth"
    /\ fr' = firstDayOfNextMonth(fa)
    /\ UNCHANGED <<progVars, fa, fb>>

CallFirstDayOfLastMonth ==
    /\ fn = "none"
    /\ fn' = "firstDayOfLastMonth"
    /\ fr' = firstDayOfLastMonth(fa)
    /\ UNCHANGED <<progVars, fa, fb>>

NextDate ==
    \/ CallDoy
    \/ CallGnssWeek
    \/ CallLeapYearDate
    \/ CallFirstDayOfNextMonth
    \/ CallFirstDayOfLastMonth

SpecDate == InitDate /\ [][NextDate]_vars

(***************************************************************************)
(* What the claims are stated with.                                        *)
(***************************************************************************)
\* a run that printed a calendar
Rendered == pc = "done" /\ err = <<>>

\* the lines of the calendar: stdout after the warning, if one was printed
CalLines ==
    IF flagSatsys \in {SYSGPS, SYSQZS, SYSBDS, SYSGAL, SYSGLO} THEN stdout
    ELSE SubSeq(stdout, 2, Len(stdout))

\* a line as displayed: without its escape sequences ESC [ n m
RECURSIVE Strip(_)
Strip(s) ==
    IF \A i \in 1..Len(s) : s[i] # "ESC" THEN s
    ELSE LET e == CHOOSE i \in 1..Len(s) : s[i] = "ESC" /\ \A j \in 1..(i - 1) : s[j] # "ESC"
         IN  SubSeq(s, 1, e - 1) \o Strip(SubSeq(s, e + 4, Len(s)))

\* the cells in reversed colour of lines a..b
Highlights(lines, a, b) ==
    UNION {{<<i, j>> : j \in {j \in 1..(Len(lines[i]) - 2) :
                                 lines[i][j] = "ESC" /\ lines[i][j + 2] = "7"}} :
           i \in a..b}

\* s holds t as a run of consecutive characters
Contains(s, t) ==
    \E i \in 0..(Len(s) - Len(t)) : SubSeq(s, i + 1, i + Len(t)) = t

Max2(a, b) == IF a > b THEN a ELSE b
Min2(a, b) == IF a < b THEN a ELSE b

\* the calendar, from its rules
IsLeap(y) == (y % 4 = 0 /\ y % 100 # 0) \/ y % 400 = 0

DaysIn(y, m) ==
    IF m = 2 THEN (IF IsLeap(y) THEN 29 ELSE 28)
    ELSE IF m \in {4, 6, 9, 11} THEN 30 ELSE 31

RECURSIVE DaysBefore(_, _)
DaysBefore(y, m) == IF m = 1 THEN 0 ELSE DaysBefore(y, m - 1) + DaysIn(y, m - 1)

\* the Sunday-to-Saturday weeks that hold a day of the month y-m, each by its
\* Sunday
WeekRows(y, m) ==
    {d - Weekday(d) : d \in {Date(y, m, 1) + k : k \in 0..(DaysIn(y, m) - 1)}}

\* the first and the last day of the month y-m in its k-th week row
RowFirst(y, m, k) ==
    Max2(Date(y, m, 1), Date(y, m, 1) - Weekday(Date(y, m, 1)) + 7 * (k - 1))
RowLast(y, m, k) ==
    Min2(Date(y, m, 1) + DaysIn(y, m) - 1,
         Date(y, m, 1) - Weekday(Date(y, m, 1)) + 7 * (k - 1) + 6)

\* the last n characters of s
Last(s, n) == SubSeq(s, Len(s) - n + 1, Len(s))

\* the month that the one-month layout shows
ShownYear == Year(cal.RefDate)
ShownMonth == Month(cal.RefDate)

OneMonthShown == Rendered /\ cal.Layout = Layout1Month
ThreeMonthShown == Rendered /\ cal.Layout = Layout3Month
OneYearShown == Rendered /\ cal.Layout = Layout1Year

\* the block of the month of date as the three-month layout is given it
BlockOf(date) ==
    gnssCalMonth(Year(date), Month(date), cal.Today, cal.Highlight,
                 IF cal.SatSys = SYSGLO THEN leapYearDate(date) ELSE cal.SysTime0,
                 cal.SatSys)

(***************************************************************************)
(* The claims.                                                             *)
(***************************************************************************)
\* C1: the three-month layout has as many lines as the longest of the three
\* gnssCalMonth blocks (previous, centre and next month), so that no row of
\* any of the three months is left out.
C1_LinesAreMaxOfBlocks ==
    ThreeMonthShown =>
        Len(CalLines) =
            Max2(Len(BlockOf(firstDayOfLastMonth(cal.RefDate))),
                 Max2(Len(BlockOf(cal.RefDate)),
                      Len(BlockOf(firstDayOfNextMonth(cal.RefDate)))))

\* C2: every line of the three-month layout is three fields of 34 display
\* columns (escape sequences taking none) with 4 spaces between two fields,
\* whether or not a day is highlighted.
C2_ThreeFieldsOf34 ==
    ThreeMonthShown =>
        \A i \in 1..Len(CalLines) :
            /\ Len(Strip(CalLines[i])) = 34 + 4 + 34 + 4 + 34
            /\ \A k \in (35..38) \cup (73..76) : Strip(CalLines[i])[k] = " "

\* C3: gnssCalMonth returns the 2 header lines and then 2 lines, a day row
\* and a day-of-year row, for each Sunday-to-Saturday week that holds a day
\* of the month: the k-th pair ends with the last day of the month in the
\* k-th such week and with its day of the year; no pair is missing and none
\* is added, also when the month ends on a Saturday.
C3_TwoLinesPerWeekRow ==
    OneMonthShown =>
        /\ Len(CalLines) = 2 + 2 * Cardinality(WeekRows(ShownYear, ShownMonth))
        /\ SubSeq(CalLines, 1, 2) = Header(ShownYear, ShownMonth, cal.SatSys)
        /\ \A k \in 1..Cardinality(WeekRows(ShownYear, ShownMonth)) :
              /\ Last(Strip(CalLines[2 * k + 1]), 2) =
                     PadLeft(Itoa(RowLast(ShownYear, ShownMonth, k)
                                  - Date(ShownYear, ShownMonth, 1) + 1), 2)
              /\ Last(CalLines[2 * k + 2], 3) =
                     PadLeft(Itoa(DaysBefore(ShownYear, ShownMonth)
                                  + RowLast(ShownYear, ShownMonth, k)
                                  - Date(ShownYear, ShownMonth, 1) + 1), 3)

\* C3, its case: a month that ends on a Saturday is shown, with no pair of
\* lines after the one of its last week
C3_MonthEndingOnSaturdayShown ==
    /\ OneMonthShown
    /\ Weekday(Date(ShownYear, ShownMonth, 1) + DaysIn(ShownYear, ShownMonth) - 1) = Saturday
    /\ Len(CalLines) = 2 + 2 * Cardinality(WeekRows(ShownYear, ShownMonth))

\* the week field of a day row that holds a number: the text up to the first
\* blank after column 4, where %4d puts the last digit of a week under 10000
WeekEnd(line) ==
    CHOOSE e \in 4..(Len(line) - 1) :
        line[e + 1] = " " /\ \A j \in 4..(e - 1) : line[j + 1] # " "

TrimLeft(s) ==
    IF \A i \in 1..Len(s) : s[i] = " " THEN <<>>
    ELSE SubSeq(s, CHOOSE i \in 1..Len(s) : s[i] # " " /\ \A j \in 1..(i - 1) : s[j] = " ",
                Len(s))

\* the day-of-year row of the days first..last of the year y, first being the
\* ord-th day of the year
DoyRowOf(first, last, ord) ==
    Spaces(6 + 4 * Weekday(first))
    \o [j \in 1..(4 * (last - first + 1)) |->
            PadLeft(Itoa(ord + (j - 1) \div 4), 4)[((j - 1) % 4) + 1]]

YearBad(t) == ~(Atoi(t).ok /\ Atoi(t).val >= 1980)
MonthBad(t) == ~(Atoi(t).ok /\ Atoi(t).val \in 0..12)

InvalidInput ==
    \/ Len(args) = 1 /\ YearBad(args[1])
    \/ Len(args) = 2 /\ (MonthBad(args[1]) \/ YearBad(args[2]))

NamesBadValue(e) ==
    \/ Len(args) = 1 /\ e = InvalidYear \o args[1]
    \/ Len(args) = 2 /\ MonthBad(args[1]) /\ Contains(e, InvalidMonth \o args[1])
    \/ Len(args) = 2 /\ YearBad(args[2]) /\ Contains(e, InvalidYear \o args[2])

\* C7: the arguments are validated before anything is rendered: nothing is
\* printed before getCalWithOpt returns; it returns an error exactly when
\* the one argument is no integer year >= 1980 or, of two, the month is no
\* integer in 0..12 or the year no integer >= 1980; then main prints the
\* error, which names the bad value, and nothing else; and when it returns
\* no error, main prints a calendar.
C7_ValidationBeforeRendering ==
    /\ pc = "start" => stdout = <<>>
    /\ pc # "start" => (err # <<>> <=> InvalidInput)
    /\ pc = "main" => CalLines = <<>>
    /\ (pc = "done" /\ InvalidInput) => (stdout = <<err>> /\ NamesBadValue(err))
    /\ (pc = "done" /\ ~InvalidInput) =>
          /\ Len(CalLines) >= 2 + 2 * 4
          /\ SubSeq(CalLines[2], 1, 34) = Header(2021, 10, SYSGPS)[2]

\* C7, its case: gnsscal 13 2021 prints the error that names 13, and no
\* calendar
C7_Month13Rejected ==
    /\ pc = "done"
    /\ args = <<Itoa(13), Itoa(2021)>>
    /\ stdout = << InvalidMonth \o Itoa(13) >>

\* C8: in the one-year layout a row of three months holds a highlighted day
\* only if the year shown is the year of today and the row holds the month
\* of today; no cell is highlighted for another year, and exactly one is
\* for the year of today when the highlight is on.
C8_HighlightOnlyInTodaysQuarter ==
    OneYearShown =>
        /\ \A h \in Highlights(CalLines, 1, Len(CalLines)) :
              /\ Year(cal.RefDate) = Year(cal.Today)
              /\ 1 + Cardinality({e \in 1..h[1] : CalLines[e] = <<>>}) =
                     (Month(cal.Today) - 1) \div 3 + 1
        /\ Cardinality(Highlights(CalLines, 1, Len(CalLines))) =
              IF cal.Highlight /\ Year(cal.RefDate) = Year(cal.Today) THEN 1 ELSE 0

\* C9: when getCalWithOpt accepts two arguments, month and year, the
\* reference date is in that month of that year, the month is in 1..12 and
\* the year of the reference date is at least 1980.
C9_RefDateInRequestedMonth ==
    (pc # "start" /\ Len(args) = 2 /\ err = <<>>) =>
        /\ Atoi(args[1]).val \in 1..12
        /\ Month(cal.RefDate) = Atoi(args[1]).val
        /\ Year(cal.RefDate) = Atoi(args[2]).val
        /\ Year(cal.RefDate) >= 1980

\* three blocks side by side, with every line of each
AllRows(l, c, r) ==
    [i \in 1..Max2(Len(l), Max2(Len(c), Len(r))) |->
        Field(l, i - 1) \o Spaces(4) \o Field(c, i - 1) \o Spaces(4) \o Field(r, i - 1)]

\* the q-th quarter of the year shown, with every line of its three months
QuarterRows(q) ==
    AllRows(BlockOf(Date(ShownYear, 3 * q - 2, 1)),
            BlockOf(Date(ShownYear, 3 * q - 1, 1)),
            BlockOf(Date(ShownYear, 3 * q, 1)))

\* C10: the one-year layout is the four quarters January-March, April-June,
\* July-September and October-December in this order, one empty line
\* between two of them, and each quarter holds every line of each of its
\* three months, the last week row of the third month included.
C10_EveryRowOfEveryMonth ==
    OneYearShown =>
        CalLines = QuarterRows(1) \o << <<>> >> \o QuarterRows(2) \o << <<>> >>
                   \o QuarterRows(3) \o << <<>> >> \o QuarterRows(4)

\* C5: for a date on or after the epoch gnssWeek is the quotient of the
\* whole days since the epoch by 7: it is 0 at the epoch, the same over the
\* seven days epoch + 7k .. epoch + 7k + 6, and one more seven days later.
C5_WeekIsQuotientOfDays ==
    (fn = "gnssWeek" /\ fa >= fb) =>
        /\ fr = (fa - fb) \div 7
        /\ fa = fb => fr = 0
        /\ gnssWeek(fb + 7 * fr, fb) = fr
        /\ gnssWeek(fb + 7 * fr + 6, fb) = fr
        /\ gnssWeek(fa + 7, fb) = fr + 1

\* C6: doy(d) is the whole days from January 1 of the year of d to d, plus
\* 1: the days of the months before plus the day of the month; it is 1 on
\* January 1, at most 365, or 366 in a leap year, where only December 31 is
\* day 366, and the next day of the same year has the next number, also
\* from February 28 or 29 to March 1.
C6_DoyIsOrdinal ==
    fn = "doy" =>
        /\ fr = fa - Date(Year(fa), 1, 1) + 1
        /\ fr = DaysBefore(Year(fa), Month(fa)) + Day(fa)
        /\ fr \in 1..(IF IsLeap(Year(fa)) THEN 366 ELSE 365)
        /\ (Month(fa) = 1 /\ Day(fa) = 1) => fr = 1
        /\ fr = 366 => (IsLeap(Year(fa)) /\ Month(fa) = 12 /\ Day(fa) = 31)
        /\ Year(fa + 1) = Year(fa) => doy(fa + 1) = fr + 1

\* C6, its case: doy of February 29, the 60th day of a leap year, before
\* March 1
C6_DoyOfFebruary29 ==
    /\ fn = "doy"
    /\ Month(fa) = 2 /\ Day(fa) = 29
    /\ fr = 60
    /\ doy(fa + 1) = 61 /\ Month(fa + 1) = 3

====
